---- MODULE Spec2Model ----
(***************************************************************************)
(* The getWeather pipeline of the MCP weather server                       *)
(* (src/services/weather.ts): input guard, sanitizer, geocode call,        *)
(* forecast call, response shaping and the outermost catch.                *)
(*                                                                         *)
(* Text is a sequence of tokens.  A token is a record: a single character  *)
(* of user / upstream supplied text (Ch), a fixed phrase of the program    *)
(* (Lit), a decimal number (NumTok) or a JSON token.                       *)
(* JavaScript values are records tagged by the field t.                    *)
(***************************************************************************)
EXTENDS Integers, Naturals, Sequences, FiniteSets, TLC

VARIABLES pc, input, sanitizedCity, geocodeResponse, weatherResponse, calls, promise,
          prior, envelope

vars == <<pc, input, sanitizedCity, geocodeResponse, weatherResponse, calls, promise,
          prior, envelope>>

(***************************************************************************)
(* Bounds of the model                                                     *)
(***************************************************************************)
NumProcs == 2
MaxLen == 2
MaxTail == 2
MaxCandidates == 2

Procs == 1..NumProcs

(***************************************************************************)
(* JavaScript values                                                       *)
(***************************************************************************)
Undefined == [t |-> "undefined"]
Null == [t |-> "null"]
Num(n) == [t |-> "number", k |-> "finite", v |-> n]
NegZero == [t |-> "number", k |-> "negzero"]
PosInf == [t |-> "number", k |-> "infinity"]
Str(s) == [t |-> "string", cs |-> s]
Arr(items) == [t |-> "array", items |-> items]
Obj(keys, vals) == [t |-> "object", keys |-> keys, vals |-> vals]

\* !v of JavaScript: undefined, null, 0, -0 and "" are falsy.
Falsy(v) ==
    \/ v.t \in {"undefined", "null"}
    \/ v.t = "number" /\ v.k = "negzero"
    \/ v.t = "number" /\ v.k = "finite" /\ v.v = 0
    \/ v.t = "string" /\ v.cs = <<>>

\* obj.key of JavaScript on a value that is not null/undefined: the own
\* property when obj is an object that has it, undefined otherwise.
HasKey(obj, key) == obj.t = "object" /\ \E n \in 1..Len(obj.keys) : obj.keys[n] = key

Get(obj, key) ==
    IF HasKey(obj, key)
    THEN obj.vals[CHOOSE n \in 1..Len(obj.keys) : obj.keys[n] = key]
    ELSE Undefined

(***************************************************************************)
(* Text                                                                    *)
(***************************************************************************)
Ch(c) == [k |-> "ch", c |-> c]
Lit(s) == [k |-> "lit", s |-> s]
NumTok(n) == [k |-> "num", n |-> n]

\* A string of the input alphabet as text.
Chars(cs) == [n \in 1..Len(cs) |-> Ch(cs[n])]

(***************************************************************************)
(* Characters.  "H" and "L" stand for the high and the low half of a       *)
(* surrogate pair (one astral character is the two code units H, L).       *)
(***************************************************************************)
Blocked == {"<", ">", "'", "\"", ";", "&", "(", ")"}
WhiteSpace == {" ", "\t", "\n"}
Alphabet == {"a", " ", "<", ")", "H", "L"}

MaxCityLen == 100

Min(S) == CHOOSE x \in S : \A y \in S : x <= y
Max(S) == CHOOSE x \in S : \A y \in S : x >= y

\* String.prototype.replace(/[<>'";&()]/g, '')
RemoveDangerous(s) == SelectSeq(s, LAMBDA c : c \notin Blocked)

\* String.prototype.trim()
Trim(s) ==
    LET keep == {n \in 1..Len(s) : s[n] \notin WhiteSpace}
    IN  IF keep = {} THEN <<>> ELSE SubSeq(s, Min(keep), Max(keep))

\* String.prototype.substring(0, n)
Substring0(s, n) == SubSeq(s, 1, IF Len(s) < n THEN Len(s) ELSE n)

\* The sanitizer without its length limit.
sanitizeInputUnbounded(s) == Trim(RemoveDangerous(s))

sanitizeInput(s) == Substring0(Trim(RemoveDangerous(s)), MaxCityLen)

(***************************************************************************)
(* encodeURIComponent: the unreserved characters stay, every other         *)
(* character is percent-encoded (Pct), a surrogate pair as one character;  *)
(* a lone surrogate makes it throw URIError.                               *)
(***************************************************************************)
Unreserved == {"a", "'", "(", ")"}
Pct(c) == [k |-> "pct", c |-> c]

WellFormed(s) ==
    \A n \in 1..Len(s) :
        /\ s[n] = "H" => (n < Len(s) /\ s[n + 1] = "L")
        /\ s[n] = "L" => (n > 1 /\ s[n - 1] = "H")

\* One code unit at a time; the low half of a pair is covered by the
\* escape of the pair and adds nothing of its own.
EncodeUnit(c) ==
    CASE c = "H" -> Pct("HL")
      [] c = "L" -> Pct("")
      [] c \in Unreserved -> Ch(c)
      [] OTHER -> Pct(c)

encodeURIComponent(s) ==
    SelectSeq([n \in 1..Len(s) |-> EncodeUnit(s[n])], LAMBDA tok : tok # Pct(""))

(***************************************************************************)
(* Template literal conversion `${v}` of a JavaScript value                *)
(***************************************************************************)
TemplateString(v) ==
    CASE v.t = "undefined" -> <<Lit("undefined")>>
      [] v.t = "null" -> <<Lit("null")>>
      [] v.t = "number" /\ v.k = "finite" -> <<NumTok(v.v)>>
      [] v.t = "number" /\ v.k = "negzero" -> <<NumTok(0)>>
      [] v.t = "number" /\ v.k = "infinity" -> <<Lit("Infinity")>>
      [] v.t = "string" -> Chars(v.cs)
      [] OTHER -> <<Lit("[object Object]")>>

(***************************************************************************)
(* The two upstream requests (the URL as its endpoint and its query)       *)
(***************************************************************************)
GEOCODING_API == "https://geocoding-api.open-meteo.com/v1/search"
WEATHER_API == "https://api.open-meteo.com/v1/forecast"

\* The geocode request with the city put into the URL as it is.
GeocodeRequestUnencoded(city) ==
    [api |-> GEOCODING_API, name |-> Chars(city), count |-> 1,
     language |-> "en", format |-> "json"]

GeocodeRequest(city) ==
    [api |-> GEOCODING_API, name |-> encodeURIComponent(city), count |-> 1,
     language |-> "en", format |-> "json"]

ForecastRequest(lat, lon) ==
    [api |-> WEATHER_API, latitude |-> TemplateString(lat),
     longitude |-> TemplateString(lon), hourly |-> "temperature_2m",
     models |-> "ukmo_seamless",
     current |-> "temperature_2m,apparent_temperature,is_day,rain"]

(***************************************************************************)
(* Exceptions, promises and the steps of the async function                *)
(***************************************************************************)
Error(name, message) == [isError |-> TRUE, name |-> name, message |-> message]
NonError(v) == [isError |-> FALSE, value |-> v]

Pending == [st |-> "pending"]
Fulfilled(v) == [st |-> "fulfilled", v |-> v]
Rejected(e) == [st |-> "rejected", e |-> e]

\* What a synchronous stretch of getWeather ends with.
RETURN(text) == [op |-> "return", text |-> text]
THROW(e) == [op |-> "throw", e |-> e]
FETCH(req) == [op |-> "fetch", req |-> req]
JSON(of) == [op |-> "json", of |-> of]

(***************************************************************************)
(* The fixed messages                                                      *)
(***************************************************************************)
EmptyCityMsg == <<Lit("Error: City name cannot be empty")>>
InvalidCityMsg == <<Lit("Error: Invalid city name provided")>>

\* The not-found text of the variant that names a city between quotes.
NotFoundMsgNamed ==
    <<Lit("Error: City "), Ch("\""), Ch("a"), Ch("\""),
      Lit(" not found. Please check the spelling and try again.")>>

NotFoundMsg == <<Lit("Error: City not found. Please check the spelling and try again.")>>

\* The location error with the body of the response appended.
LocationErrorMsgWithBody(response) ==
    <<Lit("Error fetching location data: ")>> \o TemplateString(response.status)
        \o <<Ch(" ")>> \o TemplateString(response.statusText)
        \o <<Ch(" "), Lit(response.body.st)>>

LocationErrorMsg(response) ==
    <<Lit("Error fetching location data: ")>> \o TemplateString(response.status)
        \o <<Ch(" ")>> \o TemplateString(response.statusText)

\* The weather error with the phrase of the location error.
WeatherErrorMsgCopied(response) ==
    <<Lit("Error fetching location data: ")>> \o TemplateString(response.status)
        \o <<Ch(" ")>> \o TemplateString(response.statusText)

\* The forecast error reduced to the status line, with no phrase before it.
WeatherErrorMsgBare(response) ==
    TemplateString(response.status) \o <<Ch(" ")>> \o TemplateString(response.statusText)

WeatherErrorMsg(response) ==
    <<Lit("Error fetching weather data: ")>> \o TemplateString(response.status)
        \o <<Ch(" ")>> \o TemplateString(response.statusText)

\* A catch that tells the caller nothing of what was thrown.
CatchMsgGeneric(error) ==
    <<Lit("Error retrieving weather: "), Lit("Unknown error")>>

\* catch (error) { return `Error retrieving weather: ${...}` }
CatchMsg(error) ==
    <<Lit("Error retrieving weather: ")>>
        \o (IF error.isError THEN error.message ELSE <<Lit("Unknown error")>>)

\* getWeather without its try/catch: an exception leaves the function.
TryCatchMissing(step) == step

\* The try { ... } catch of getWeather around a stretch of its body.
TryCatch(step) == IF step.op = "throw" THEN RETURN(CatchMsg(step.e)) ELSE step

(***************************************************************************)
(* JSON.stringify(value, null, 2) and JSON.parse, on the values that       *)
(* Response.json() can produce (the results of JSON.parse: null, numbers,  *)
(* strings, arrays, objects).  A finite non-zero number is printed in the  *)
(* shortest decimal form that reads back as the same double, so it is      *)
(* represented by an integer; -0 is printed as 0, and a number that        *)
(* overflowed to Infinity when the body was parsed is printed as null.     *)
(* String escaping and unescaping are inverse, a string is one token.      *)
(***************************************************************************)
P(s) == [k |-> "p", s |-> s]
NL(n) == [k |-> "nl", n |-> n]
SP == [k |-> "sp"]
JStr(cs) == [k |-> "jstr", cs |-> cs]
JNull == [k |-> "jnull"]

SerializeNumber(v) ==
    CASE v.k = "finite" -> NumTok(v.v)
      [] v.k = "negzero" -> NumTok(0)
      [] v.k = "infinity" -> JNull

RECURSIVE Serialize(_, _), SerializeItems(_, _), SerializeMembers(_, _, _)
Serialize(v, ind) ==
    CASE v.t = "null" -> <<JNull>>
      [] v.t = "number" -> <<SerializeNumber(v)>>
      [] v.t = "string" -> <<JStr(v.cs)>>
      [] v.t = "array" ->
            IF v.items = <<>> THEN <<P("["), P("]")>>
            ELSE <<P("[")>> \o SerializeItems(v.items, ind + 2) \o <<NL(ind), P("]")>>
      [] v.t = "object" ->
            IF v.keys = <<>> THEN <<P("{"), P("}")>>
            ELSE <<P("{")>> \o SerializeMembers(v.keys, v.vals, ind + 2) \o <<NL(ind), P("}")>>

SerializeItems(items, ind) ==
    IF items = <<>> THEN <<>>
    ELSE <<NL(ind)>> \o Serialize(Head(items), ind)
            \o (IF Len(items) > 1 THEN <<P(",")>> ELSE <<>>)
            \o SerializeItems(Tail(items), ind)

SerializeMembers(keys, vals, ind) ==
    IF keys = <<>> THEN <<>>
    ELSE <<NL(ind), JStr(<<Head(keys)>>), P(":"), SP>> \o Serialize(Head(vals), ind)
            \o (IF Len(keys) > 1 THEN <<P(",")>> ELSE <<>>)
            \o SerializeMembers(Tail(keys), Tail(vals), ind)

JSONStringify(v) == Serialize(v, 0)

\* JSON.parse: white space between tokens is skipped, then recursive descent.
\* Each parser returns the value read and the tokens left.
RECURSIVE ParseValue(_), ParseItems(_, _), ParseMembers(_, _, _)
ParseValue(ts) ==
    LET h == Head(ts)
    IN  CASE h.k = "num" -> [v |-> Num(h.n), rest |-> Tail(ts)]
          [] h.k = "jnull" -> [v |-> Null, rest |-> Tail(ts)]
          [] h.k = "jstr" -> [v |-> Str(h.cs), rest |-> Tail(ts)]
          [] h = P("[") ->
                IF Head(Tail(ts)) = P("]")
                THEN [v |-> Arr(<<>>), rest |-> Tail(Tail(ts))]
                ELSE ParseItems(Tail(ts), <<>>)
          [] h = P("{") ->
                IF Head(Tail(ts)) = P("}")
                THEN [v |-> Obj(<<>>, <<>>), rest |-> Tail(Tail(ts))]
                ELSE ParseMembers(Tail(ts), <<>>, <<>>)

ParseItems(ts, acc) ==
    LET r == ParseValue(ts)
    IN  IF Head(r.rest) = P(",")
        THEN ParseItems(Tail(r.rest), Append(acc, r.v))
        ELSE [v |-> Arr(Append(acc, r.v)), rest |-> Tail(r.rest)]

ParseMembers(ts, keys, vals) ==
    LET key == Head(ts).cs[1]
        r == ParseValue(Tail(Tail(ts)))
    IN  IF Head(r.rest) = P(",")
        THEN ParseMembers(Tail(r.rest), Append(keys, key), Append(vals, r.v))
        ELSE [v |-> Obj(Append(keys, key), Append(vals, r.v)), rest |-> Tail(r.rest)]

JSONParse(text) == ParseValue(SelectSeq(text, LAMBDA tok : tok.k \notin {"nl", "sp"})).v

(***************************************************************************)
(* Inputs: the values input.city can have                                  *)
(***************************************************************************)
ShortStrings == UNION {[1..n -> Alphabet] : n \in 0..MaxLen}

\* Long cities: a run of plain characters that a tail takes to, or one
\* past, the length limit.
Fill == [n \in 1..(MaxCityLen + 1 - MaxTail) |-> "a"]
LongStrings == {Fill \o tl : tl \in UNION {[1..n -> Alphabet] : n \in 0..MaxTail}}

CityValues ==
    {Undefined, Null, Num(0), Num(7)} \cup {Str(s) : s \in ShortStrings \cup LongStrings}

(***************************************************************************)
(* Upstream behaviour: what fetch() and Response.json() can settle with    *)
(***************************************************************************)
FetchFailures ==
    {Error("TypeError", <<Lit("fetch failed")>>),
     Error("Error", <<Lit("getaddrinfo ENOTFOUND api.open-meteo.com")>>),
     NonError(Str(<<"a">>))}

SyntaxError == Error("SyntaxError", <<Lit("Unexpected token < in JSON at position 0")>>)

OkStatuses == {200}
ErrorStatuses == {404, 500}
StatusTexts == {<<>>, <<"<", "a">>}

Response(status, statusText, body) ==
    [status |-> Num(status), statusText |-> Str(statusText), body |-> body]

\* Response.ok
Ok(response) == response.status.v \in 200..299

ErrorBody == Obj(<<"error", "reason">>, <<Num(1), Str(<<"a">>)>>)
ErrorBodies == {Rejected(SyntaxError), Fulfilled(ErrorBody)}

ErrorResponses ==
    {Response(st, tx, b) : st \in ErrorStatuses, tx \in StatusTexts, b \in ErrorBodies}

Place(lat, lon) ==
    Obj(<<"latitude", "longitude", "name", "country">>,
        <<Num(lat), Num(lon), Str(<<"a">>), Str(<<"a">>)>>)
Candidates == {Place(1, 2), Place(2, 1)}
\* A candidate without coordinates.
Nameless == Obj(<<"name">>, <<Str(<<"a">>)>>)
CandidateLists == UNION {[1..n -> Candidates] : n \in 0..MaxCandidates}

GeocodeData ==
    {Null, Num(5), Obj(<<"generationtime_ms">>, <<Num(1)>>)}
        \cup {Obj(<<"results">>, <<r>>) : r \in {Null, Num(5), Str(<<"a">>), Arr(<<Nameless>>)}}
        \cup {Obj(<<"results">>, <<Arr(l)>>) : l \in CandidateLists}

GeocodeResponses ==
    ErrorResponses
        \cup {Response(st, <<"a">>, b) : st \in OkStatuses,
                 b \in {Rejected(SyntaxError)} \cup {Fulfilled(d) : d \in GeocodeData}}

GeocodeOutcomes ==
    {Rejected(e) : e \in FetchFailures} \cup {Fulfilled(r) : r \in GeocodeResponses}

Forecast(temp, extra) ==
    Obj(<<"latitude", "longitude">> \o extra \o <<"current", "hourly">>,
        <<Num(1), Num(2)>> \o [n \in 1..Len(extra) |-> Str(<<"a">>)] \o
        <<Obj(<<"time", "temperature_2m", "apparent_temperature", "is_day", "rain">>,
              <<Str(<<"t0">>), temp, Num(14), Num(1), Num(0)>>),
          Obj(<<"time", "temperature_2m">>,
              <<Arr(<<Str(<<"t0">>), Str(<<"t1">>)>>), Arr(<<temp, Num(16)>>)>>)>>)

WeatherDataValues ==
    {Null, ErrorBody}
        \cup {Forecast(temp, extra) : temp \in {Num(15), NegZero, PosInf},
                                     extra \in {<<>>, <<"timezone">>}}

WeatherResponses ==
    ErrorResponses
        \cup {Response(st, <<"a">>, b) : st \in OkStatuses,
                 b \in {Rejected(SyntaxError)} \cup {Fulfilled(d) : d \in WeatherDataValues}}

WeatherOutcomes ==
    {Rejected(e) : e \in FetchFailures} \cup {Fulfilled(r) : r \in WeatherResponses}

(***************************************************************************)
(* getWeather, cut at its await points.  Each stretch maps what the        *)
(* previous await settled with to what the stretch ends with.              *)
(***************************************************************************)
TypeError(message) == Error("TypeError", <<Lit(message)>>)

\* results.length and results[0] on whatever value results is
Length(v) ==
    CASE v.t = "array" -> Num(Len(v.items))
      [] v.t = "string" -> Num(Len(v.cs))
      [] OTHER -> Get(v, "length")

StrictEqualsZero(v) ==
    v.t = "number" /\ (v.k = "negzero" \/ (v.k = "finite" /\ v.v = 0))

First(v) ==
    CASE v.t = "array" -> IF v.items = <<>> THEN Undefined ELSE v.items[1]
      [] v.t = "string" -> IF v.cs = <<>> THEN Undefined ELSE Str(<<v.cs[1]>>)
      [] OTHER -> Get(v, "0")

\* lines 18-20: the blank check
IsBlank(city) == Falsy(city) \/ (city.t = "string" /\ Trim(city.cs) = <<>>)

\* The guard without its white-space check (only !input.city).
ValidateWithoutTrim(city) ==
    IF Falsy(city) THEN RETURN(EmptyCityMsg)
    ELSE IF city.t # "string" THEN THROW(TypeError("input.city.trim is not a function"))
    ELSE LET sanitized == sanitizeInput(city.cs)
         IN  IF sanitized = <<>> THEN RETURN(InvalidCityMsg)
             ELSE IF ~WellFormed(sanitized)
                  THEN THROW(Error("URIError", <<Lit("URI malformed")>>))
                  ELSE FETCH(GeocodeRequest(sanitized))

\* The guard without the check of the sanitized city.
ValidateWithoutSanitizedCheck(city) ==
    IF Falsy(city) THEN RETURN(EmptyCityMsg)
    ELSE IF city.t # "string" THEN THROW(TypeError("input.city.trim is not a function"))
    ELSE IF Trim(city.cs) = <<>> THEN RETURN(EmptyCityMsg)
    ELSE LET sanitized == sanitizeInput(city.cs)
         IN  IF ~WellFormed(sanitized)
             THEN THROW(Error("URIError", <<Lit("URI malformed")>>))
             ELSE FETCH(GeocodeRequest(sanitized))

\* The guard with the rejected city quoted back in the message.
ValidateEchoing(city) ==
    IF Falsy(city) THEN RETURN(EmptyCityMsg)
    ELSE IF city.t # "string" THEN THROW(TypeError("input.city.trim is not a function"))
    ELSE IF Trim(city.cs) = <<>> THEN RETURN(EmptyCityMsg)
    ELSE LET sanitized == sanitizeInput(city.cs)
         IN  IF sanitized = <<>> THEN RETURN(InvalidCityMsg \o Chars(city.cs))
             ELSE IF ~WellFormed(sanitized)
                  THEN THROW(Error("URIError", <<Lit("URI malformed")>>))
                  ELSE FETCH(GeocodeRequest(sanitized))

\* lines 16-30: validate, sanitize, issue the geocode call
ValidateAndGeocode(city) ==
    IF Falsy(city) THEN RETURN(EmptyCityMsg)
    ELSE IF city.t # "string" THEN THROW(TypeError("input.city.trim is not a function"))
    ELSE IF Trim(city.cs) = <<>> THEN RETURN(EmptyCityMsg)
    ELSE LET sanitized == sanitizeInput(city.cs)
         IN  IF sanitized = <<>> THEN RETURN(InvalidCityMsg)
             ELSE IF ~WellFormed(sanitized)
                  THEN THROW(Error("URIError", <<Lit("URI malformed")>>))
                  ELSE FETCH(GeocodeRequest(sanitized))

\* A geocode call that is issued again when it failed.
OnGeocodeResponseRetry(outcome) ==
    IF outcome.st = "rejected" THEN FETCH(GeocodeRequest(<<"a">>))
    ELSE IF ~Ok(outcome.v) THEN FETCH(GeocodeRequest(<<"a">>))
    ELSE JSON("geocode")

\* lines 28-36: the geocode fetch settled
OnGeocodeResponse(outcome) ==
    IF outcome.st = "rejected" THEN THROW(outcome.e)
    ELSE IF ~Ok(outcome.v) THEN RETURN(LocationErrorMsg(outcome.v))
    ELSE JSON("geocode")

\* The not-found check without its length test (only !geocodeData.results).
OnGeocodeDataWithoutLength(outcome) ==
    IF outcome.st = "rejected" THEN THROW(outcome.e)
    ELSE LET geocodeData == outcome.v
         IN  IF geocodeData.t \in {"null", "undefined"}
             THEN THROW(TypeError("Cannot read properties of null (reading 'results')"))
             ELSE LET results == Get(geocodeData, "results")
                  IN  IF Falsy(results)
                      THEN RETURN(NotFoundMsg)
                      ELSE IF First(results).t \in {"null", "undefined"}
                           THEN THROW(TypeError("Cannot destructure property 'latitude' of 'geocodeData.results[0]' as it is undefined."))
                           ELSE FETCH(ForecastRequest(Get(First(results), "latitude"),
                                                      Get(First(results), "longitude")))

\* The coordinates taken from the last candidate of the list.
OnGeocodeDataLast(outcome) ==
    IF outcome.st = "rejected" THEN THROW(outcome.e)
    ELSE LET geocodeData == outcome.v
         IN  IF geocodeData.t \in {"null", "undefined"}
             THEN THROW(TypeError("Cannot read properties of null (reading 'results')"))
             ELSE LET results == Get(geocodeData, "results")
                      last == IF results.t = "array" /\ results.items # <<>>
                              THEN results.items[Len(results.items)] ELSE First(results)
                  IN  IF Falsy(results) \/ StrictEqualsZero(Length(results))
                      THEN RETURN(NotFoundMsg)
                      ELSE IF last.t \in {"null", "undefined"}
                           THEN THROW(TypeError("Cannot destructure property 'latitude' of 'geocodeData.results[0]' as it is undefined."))
                           ELSE FETCH(ForecastRequest(Get(last, "latitude"),
                                                      Get(last, "longitude")))

\* The not-found check on the length of results alone.
OnGeocodeDataLengthOnly(outcome) ==
    IF outcome.st = "rejected" THEN THROW(outcome.e)
    ELSE LET geocodeData == outcome.v
         IN  IF geocodeData.t \in {"null", "undefined"}
             THEN THROW(TypeError("Cannot read properties of null (reading 'results')"))
             ELSE LET results == Get(geocodeData, "results")
                  IN  IF results.t \in {"null", "undefined"}
                      THEN THROW(TypeError("Cannot read properties of undefined (reading 'length')"))
                      ELSE IF StrictEqualsZero(Length(results))
                      THEN RETURN(NotFoundMsg)
                      ELSE IF First(results).t \in {"null", "undefined"}
                           THEN THROW(TypeError("Cannot destructure property 'latitude' of 'geocodeData.results[0]' as it is undefined."))
                           ELSE FETCH(ForecastRequest(Get(First(results), "latitude"),
                                                      Get(First(results), "longitude")))

\* lines 36-47: the geocode body was read
OnGeocodeData(outcome) ==
    IF outcome.st = "rejected" THEN THROW(outcome.e)
    ELSE LET geocodeData == outcome.v
         IN  IF geocodeData.t \in {"null", "undefined"}
             THEN THROW(TypeError("Cannot read properties of null (reading 'results')"))
             ELSE LET results == Get(geocodeData, "results")
                  IN  IF Falsy(results) \/ StrictEqualsZero(Length(results))
                      THEN RETURN(NotFoundMsg)
                      ELSE IF First(results).t \in {"null", "undefined"}
                           THEN THROW(TypeError("Cannot destructure property 'latitude' of 'geocodeData.results[0]' as it is undefined."))
                           ELSE FETCH(ForecastRequest(Get(First(results), "latitude"),
                                                      Get(First(results), "longitude")))

\* The forecast response taken without looking at its status.
OnWeatherResponseUnchecked(outcome) ==
    IF outcome.st = "rejected" THEN THROW(outcome.e)
    ELSE JSON("forecast")

\* lines 45-53: the forecast fetch settled
OnWeatherResponse(outcome) ==
    IF outcome.st = "rejected" THEN THROW(outcome.e)
    ELSE IF ~Ok(outcome.v) THEN RETURN(WeatherErrorMsg(outcome.v))
    ELSE JSON("forecast")

\* lines 53-55: the forecast body was read
OnWeatherData(outcome) ==
    IF outcome.st = "rejected" THEN THROW(outcome.e)
    ELSE RETURN(JSONStringify(outcome.v))

(***************************************************************************)
(* State: one frame of getWeather per invocation slot                      *)
(***************************************************************************)
NoCall == [st |-> "idle"]
NoInput == [t |-> "none"]
NoEnvelope == [content |-> <<>>]

\* Whether a fulfilled text is one of the error responses: each of them
\* starts with a fixed phrase, the success payload starts with a brace.
IsErrorText(text) == text # <<>> /\ Head(text).k = "lit"

\* A result that also says in a flag of its own whether it is an error.
ToolResultFlagged(result) ==
    [content |-> <<[type |-> "text", text |-> result]>>, isError |-> IsErrorText(result)]

\* The result object the getWeather tool handler builds around the text.
ToolResult(result) == [content |-> <<[type |-> "text", text |-> result]>>]

\* The handler awaits getWeather: a fulfilled promise is wrapped, a
\* rejected one leaves the handler as an exception with no result.
Handler(settled) ==
    IF settled.st = "fulfilled" THEN ToolResult(settled.v) ELSE NoEnvelope

\* What the frames still standing say about the invocations made before
\* this one: one of them ended in an error, or none has.
Earlier ==
    IF \E j \in Procs : /\ pc[j] = "done"
                        /\ \/ promise[j].st = "rejected"
                           \/ promise[j].st = "fulfilled" /\ IsErrorText(promise[j].v)
    THEN "error" ELSE "none"

Init ==
    /\ pc = [i \in Procs |-> "idle"]
    /\ input = [i \in Procs |-> NoInput]
    /\ sanitizedCity = [i \in Procs |-> <<>>]
    /\ geocodeResponse = [i \in Procs |-> NoCall]
    /\ weatherResponse = [i \in Procs |-> NoCall]
    /\ calls = [i \in Procs |-> <<>>]
    /\ promise = [i \in Procs |-> NoCall]
    /\ prior = [i \in Procs |-> "none"]
    /\ envelope = [i \in Procs |-> NoEnvelope]

NextPc(step) ==
    CASE step.op \in {"return", "throw"} -> "done"
      [] step.op = "fetch" ->
            IF step.req.api = GEOCODING_API THEN "awaitGeocode" ELSE "awaitForecast"
      [] step.op = "json" ->
            IF step.of = "geocode" THEN "awaitGeocodeJson" ELSE "awaitForecastJson"

\* A response stamped with the number of the invocation that produced it.
ContinueStamped(i, step) ==
    /\ pc' = [pc EXCEPT ![i] = NextPc(step)]
    /\ calls' = [calls EXCEPT ![i] = IF step.op = "fetch" THEN Append(@, step.req) ELSE @]
    /\ promise' = [promise EXCEPT ![i] =
            CASE step.op = "return" -> Fulfilled(step.text \o <<NumTok(i)>>)
              [] step.op = "throw" -> Rejected(step.e)
              [] OTHER -> Pending]

\* The frame of invocation i moves on with what a stretch ended with: a
\* return fulfils the promise of the async function, an exception that
\* leaves it rejects the promise, a fetch is issued and awaited.
Continue(i, step) ==
    /\ pc' = [pc EXCEPT ![i] = NextPc(step)]
    /\ calls' = [calls EXCEPT ![i] = IF step.op = "fetch" THEN Append(@, step.req) ELSE @]
    /\ promise' = [promise EXCEPT ![i] =
            CASE step.op = "return" -> Fulfilled(step.text)
              [] step.op = "throw" -> Rejected(step.e)
              [] OTHER -> Pending]

\* A service that one failed invocation leaves broken: once an earlier
\* invocation has ended in an error, a call is answered with an error
\* without being looked at.
GetWeatherLatched(i, city) ==
    /\ pc[i] = "idle"
    /\ input' = [input EXCEPT ![i] = city]
    /\ sanitizedCity' = [sanitizedCity EXCEPT ![i] =
            IF IsBlank(city) \/ city.t # "string" THEN @ ELSE sanitizeInput(city.cs)]
    /\ Continue(i, IF Earlier = "error"
                   THEN RETURN(<<Lit("Error retrieving weather: "), Lit("Unknown error")>>)
                   ELSE TryCatch(ValidateAndGeocode(city)))
    /\ prior' = [prior EXCEPT ![i] = Earlier]
    /\ envelope' = [envelope EXCEPT ![i] = NoEnvelope]
    /\ UNCHANGED <<geocodeResponse, weatherResponse>>

\* getWeather(input) is called and runs to its first await or to its return.
GetWeather(i, city) ==
    /\ pc[i] = "idle"
    /\ input' = [input EXCEPT ![i] = city]
    /\ sanitizedCity' = [sanitizedCity EXCEPT ![i] =
            IF IsBlank(city) \/ city.t # "string" THEN @ ELSE sanitizeInput(city.cs)]
    /\ Continue(i, TryCatch(ValidateAndGeocode(city)))
    /\ prior' = [prior EXCEPT ![i] = Earlier]
    /\ envelope' = [envelope EXCEPT ![i] = NoEnvelope]
    /\ UNCHANGED <<geocodeResponse, weatherResponse>>

GeocodeFetchSettles(i, outcome) ==
    /\ pc[i] = "awaitGeocode"
    /\ geocodeResponse' = [geocodeResponse EXCEPT ![i] = outcome]
    /\ Continue(i, TryCatch(OnGeocodeResponse(outcome)))
    /\ UNCHANGED <<input, sanitizedCity, weatherResponse, prior, envelope>>

\* The geocode body kept in a field shared by all invocations: the
\* stretch reads the body of whichever invocation is waiting first.
GeocodeJsonSettlesShared(i) ==
    /\ pc[i] = "awaitGeocodeJson"
    /\ LET first == Min({j \in Procs : pc[j] = "awaitGeocodeJson"})
       IN  Continue(i, TryCatch(OnGeocodeData(geocodeResponse[first].v.body)))
    /\ UNCHANGED <<input, sanitizedCity, geocodeResponse, weatherResponse, prior, envelope>>

GeocodeJsonSettles(i) ==
    /\ pc[i] = "awaitGeocodeJson"
    /\ Continue(i, TryCatch(OnGeocodeData(geocodeResponse[i].v.body)))
    /\ UNCHANGED <<input, sanitizedCity, geocodeResponse, weatherResponse, prior, envelope>>

WeatherFetchSettles(i, outcome) ==
    /\ pc[i] = "awaitForecast"
    /\ weatherResponse' = [weatherResponse EXCEPT ![i] = outcome]
    /\ Continue(i, TryCatch(OnWeatherResponse(outcome)))
    /\ UNCHANGED <<input, sanitizedCity, geocodeResponse, prior, envelope>>

WeatherJsonSettles(i) ==
    /\ pc[i] = "awaitForecastJson"
    /\ Continue(i, TryCatch(OnWeatherData(weatherResponse[i].v.body)))
    /\ UNCHANGED <<input, sanitizedCity, geocodeResponse, weatherResponse, prior, envelope>>

\* The tool handler resumes with the settled promise and hands its result
\* to the protocol layer; the frame is gone.
Return(i) ==
    /\ pc[i] = "done"
    /\ pc' = [pc EXCEPT ![i] = "idle"]
    /\ input' = [input EXCEPT ![i] = NoInput]
    /\ sanitizedCity' = [sanitizedCity EXCEPT ![i] = <<>>]
    /\ geocodeResponse' = [geocodeResponse EXCEPT ![i] = NoCall]
    /\ weatherResponse' = [weatherResponse EXCEPT ![i] = NoCall]
    /\ calls' = [calls EXCEPT ![i] = <<>>]
    /\ promise' = [promise EXCEPT ![i] = NoCall]
    /\ prior' = [prior EXCEPT ![i] = "none"]
    /\ envelope' = [envelope EXCEPT ![i] = Handler(promise[i])]

\* A caller that awaits each call before it makes the next one; a call
\* takes the first free slot.
CallInTurn(i, city) ==
    /\ \A j \in Procs : pc[j] = "idle"
    /\ i = Min({j \in Procs : pc[j] = "idle"})
    /\ GetWeather(i, city)

Next ==
    \E i \in Procs :
        \/ \E city \in CityValues : CallInTurn(i, city)
        \/ \E outcome \in GeocodeOutcomes : GeocodeFetchSettles(i, outcome)
        \/ GeocodeJsonSettles(i)
        \/ \E outcome \in WeatherOutcomes : WeatherFetchSettles(i, outcome)
        \/ WeatherJsonSettles(i)
        \/ Return(i)

Spec == Init /\ [][Next]_vars

(***************************************************************************)
(* Callers that do not wait for one another: a call may be made while      *)
(* other invocations are suspended at an await, and the suspended          *)
(* invocations resume in any order.  The inputs and the upstream answers   *)
(* are a few representatives of each kind, so that the interleavings can   *)
(* be enumerated.                                                          *)
(***************************************************************************)
ConcCities == {Str(<<"<">>), Str(<<"a">>), Str(<<"a", "a">>)}

ConcGeocodeOutcomes ==
    {Rejected(Error("TypeError", <<Lit("fetch failed")>>)),
     Fulfilled(Response(500, <<>>, Fulfilled(ErrorBody)))}
        \cup {Fulfilled(Response(200, <<"a">>, Fulfilled(Obj(<<"results">>, <<Arr(<<c>>)>>)))) :
                 c \in Candidates}

ConcWeatherOutcomes ==
    {Fulfilled(Response(500, <<>>, Fulfilled(ErrorBody)))}
        \cup {Fulfilled(Response(200, <<"a">>, Fulfilled(Forecast(Num(15), extra)))) :
                 extra \in {<<>>, <<"timezone">>}}

\* A call made whatever the other invocations are doing; it takes the
\* first free slot.
CallConcurrently(i, city) ==
    /\ pc[i] = "idle"
    /\ \A j \in Procs : j < i => pc[j] # "idle"
    /\ GetWeather(i, city)

ConcNext ==
    \E i \in Procs :
        \/ \E city \in ConcCities : CallConcurrently(i, city)
        \/ \E outcome \in ConcGeocodeOutcomes : GeocodeFetchSettles(i, outcome)
        \/ GeocodeJsonSettles(i)
        \/ \E outcome \in ConcWeatherOutcomes : WeatherFetchSettles(i, outcome)
        \/ WeatherJsonSettles(i)
        \/ Return(i)

ConcSpec == Init /\ [][ConcNext]_vars

(***************************************************************************)
(* Progress.  What the program itself schedules is taken: a settled        *)
(* promise resumes the handler, and the body of a response that has        *)
(* arrived is read to its end.  Nothing obliges an upstream to answer a    *)
(* fetch: no timeout and no abort signal is passed to it.                  *)
(***************************************************************************)
FairSpec ==
    /\ Init
    /\ [][Next]_vars
    /\ \A i \in Procs :
          /\ WF_vars(GeocodeJsonSettles(i))
          /\ WF_vars(WeatherJsonSettles(i))
          /\ WF_vars(Return(i))

(***************************************************************************)
(* Calls of the getWeather tool.  The protocol layer parses the arguments  *)
(* of a request with the schema the tool was registered with; arguments    *)
(* that pass are handed to the handler, which calls getWeather with        *)
(* their city, and arguments that fail are answered with an invalid-       *)
(* parameters error without the handler being run.                         *)
(***************************************************************************)
\* z.object({ city: z.string().min(1, ...) }).safeParse(request).success
WeatherSchema(request) ==
    /\ request.t = "object"
    /\ HasKey(request, "city")
    /\ Get(request, "city").t = "string"
    /\ Len(Get(request, "city").cs) >= 1

\* The shape the tool is registered with: { city: z.string() }
ToolSchema(request) ==
    /\ request.t = "object"
    /\ HasKey(request, "city")
    /\ Get(request, "city").t = "string"

InvalidParams == [content |-> <<>>, error |-> "InvalidParams"]

Requests ==
    {Obj(<<>>, <<>>), Obj(<<"town">>, <<Str(<<"a">>)>>)}
        \cup {Obj(<<"city">>, <<v>>) : v \in {Null, Num(7)} \cup {Str(s) : s \in ShortStrings}}

CallTool(i, request) ==
    /\ \A j \in Procs : pc[j] = "idle"
    /\ i = Min({j \in Procs : pc[j] = "idle"})
    /\ IF ToolSchema(request)
       THEN GetWeather(i, Get(request, "city"))
       ELSE /\ envelope' = [envelope EXCEPT ![i] = InvalidParams]
            /\ UNCHANGED <<pc, input, sanitizedCity, geocodeResponse, weatherResponse,
                           calls, promise, prior>>

ToolNext ==
    \E i \in Procs :
        \/ \E request \in Requests : CallTool(i, request)
        \/ \E outcome \in ConcGeocodeOutcomes : GeocodeFetchSettles(i, outcome)
        \/ GeocodeJsonSettles(i)
        \/ \E outcome \in ConcWeatherOutcomes : WeatherFetchSettles(i, outcome)
        \/ WeatherJsonSettles(i)
        \/ Return(i)

ToolSpec == Init /\ [][ToolNext]_vars

(***************************************************************************)
(* Tool calls with upstreams that answer: every fetch that was issued is   *)
(* settled in the end, with an answer or with a failure.                   *)
(***************************************************************************)
ResponsiveSpec ==
    /\ Init
    /\ [][ToolNext]_vars
    /\ \A i \in Procs :
          /\ WF_vars(\E outcome \in ConcGeocodeOutcomes : GeocodeFetchSettles(i, outcome))
          /\ WF_vars(GeocodeJsonSettles(i))
          /\ WF_vars(\E outcome \in ConcWeatherOutcomes : WeatherFetchSettles(i, outcome))
          /\ WF_vars(WeatherJsonSettles(i))
          /\ WF_vars(Return(i))

(***************************************************************************)
(* Vocabulary of the properties                                            *)
(***************************************************************************)
TokenKinds == {"ch", "lit", "num", "pct", "p", "nl", "sp", "jstr", "jnull"}
IsText(v) == DOMAIN v = 1..Len(v) /\ \A n \in 1..Len(v) : v[n].k \in TokenKinds

Started(i) == pc[i] # "idle"
Returned(i) == pc[i] = "done"

\* The city is absent, empty or made of white space only.
BlankCity(city) ==
    \/ city = Undefined
    \/ city.t = "string" /\ \A n \in 1..Len(city.cs) : city.cs[n] \in WhiteSpace

NoBlocked(s) == \A n \in 1..Len(s) : s[n] \notin {"<", ">", "'", "\"", ";", "&", "(", ")"}

GeocodeCalls(i) == SelectSeq(calls[i], LAMBDA r : r.api = GEOCODING_API)
ForecastCalls(i) == SelectSeq(calls[i], LAMBDA r : r.api = WEATHER_API)

\* The fetch of an upstream answered with a success status / failed.
Answered(outcome) == outcome.st = "fulfilled" /\ outcome.v.status.v \in 200..299
BadStatus(outcome) == outcome.st = "fulfilled" /\ outcome.v.status.v \notin 200..299
Threw(outcome) == outcome.st = "rejected"
\* ... and its body was read as a JSON value.
Delivered(outcome) == Answered(outcome) /\ outcome.v.body.st = "fulfilled"

\* The number of candidates in a geocode body.
CandidateCount(data) ==
    LET results == Get(data, "results")
    IN  CASE results.t = "array" -> Len(results.items)
          [] results.t = "string" -> Len(results.cs)
          [] OTHER -> 0

\* An error response starts with a fixed phrase, a payload never does.
IsSuccess(i) == Returned(i) /\ promise[i].st = "fulfilled" /\ Head(promise[i].v).k # "lit"

\* C1: getWeather is total: whatever the input and whatever the two
\* upstreams do, the promise of an invocation is never rejected, and a
\* finished invocation has resolved to a text.
GetWeatherIsTotal ==
    \A i \in Procs :
        /\ promise[i].st # "rejected"
        /\ Returned(i) => (promise[i].st = "fulfilled" /\ IsText(promise[i].v)
                             /\ promise[i].v # <<>>)
        /\ (Started(i) /\ ~Returned(i)) => promise[i].st = "pending"

GetWeatherIsTotal_Witness ==
    \E i \in Procs :
        /\ Returned(i)
        /\ Threw(weatherResponse[i])
        /\ promise[i].st = "fulfilled"

\* C2: an absent, empty or white-space-only city gets the fixed empty-city
\* message, and no upstream call is made.
BlankCityRejected ==
    \A i \in Procs :
        (Started(i) /\ BlankCity(input[i])) =>
            /\ Returned(i)
            /\ promise[i] = Fulfilled(<<Lit("Error: City name cannot be empty")>>)
            /\ calls[i] = <<>>

BlankCityRejected_Witness ==
    \E i \in Procs :
        /\ input[i] = Str(<<" ", " ">>)
        /\ Returned(i)
        /\ calls[i] = <<>>

\* C3: a city that is not blank but whose sanitized form is empty gets the
\* fixed invalid-city message, and no upstream call is made.
UnsanitizableCityRejected ==
    \A i \in Procs :
        (Started(i) /\ input[i].t = "string" /\ ~BlankCity(input[i])
            /\ sanitizeInput(input[i].cs) = <<>>) =>
            /\ Returned(i)
            /\ promise[i] = Fulfilled(<<Lit("Error: Invalid city name provided")>>)
            /\ calls[i] = <<>>

UnsanitizableCityRejected_Witness ==
    \E i \in Procs :
        /\ input[i] = Str(<<"<", ")">>)
        /\ Returned(i)
        /\ promise[i].st = "fulfilled"
        /\ calls[i] = <<>>

\* C4: the sanitized form of every input string has none of the blocked
\* characters and at most 100 characters, and every geocode request carries
\* the (encoded) sanitized city, which is then also non-empty.
SanitizerInvariant ==
    \A i \in Procs :
        input[i].t = "string" =>
            LET sanitized == sanitizeInput(input[i].cs)
            IN  /\ NoBlocked(sanitized)
                /\ Len(sanitized) <= 100
                /\ \A n \in 1..Len(GeocodeCalls(i)) :
                      /\ sanitizedCity[i] = sanitized
                      /\ GeocodeCalls(i)[n].name = encodeURIComponent(sanitized)
                      /\ sanitized # <<>>
                      /\ GeocodeCalls(i)[n].name # <<>>

SanitizerInvariant_Witness ==
    \E i \in Procs :
        /\ input[i].t = "string"
        /\ Len(input[i].cs) > 100
        /\ \A n \in 1..Len(input[i].cs) : input[i].cs[n] = "a"
        /\ Len(GeocodeCalls(i)) = 1
        /\ Len(sanitizedCity[i]) = 100

\* C5: the steps of an invocation run in the order guard, geocode,
\* forecast, respond: the calls made are a geocode call, then possibly a
\* forecast call; the forecast call is issued only after the geocode call
\* answered with a success status and at least one candidate; a success
\* response is returned only after one geocode call and then one forecast
\* call have both succeeded.
StrictlySequential ==
    \A i \in Procs :
        /\ Len(calls[i]) <= 2
        /\ Len(calls[i]) >= 1 => calls[i][1].api = GEOCODING_API
        /\ Len(calls[i]) = 2 =>
              /\ calls[i][2].api = WEATHER_API
              /\ Delivered(geocodeResponse[i])
              /\ CandidateCount(geocodeResponse[i].v.body.v) >= 1
        /\ pc[i] \in {"awaitForecast", "awaitForecastJson"} => Len(calls[i]) = 2
        /\ pc[i] \in {"awaitGeocode", "awaitGeocodeJson"} => Len(calls[i]) = 1
        /\ IsSuccess(i) =>
              /\ Len(calls[i]) = 2
              /\ Delivered(geocodeResponse[i])
              /\ Delivered(weatherResponse[i])

StrictlySequential_Witness ==
    \E i \in Procs :
        /\ IsSuccess(i)
        /\ Len(calls[i]) = 2
        /\ Get(weatherResponse[i].v.body.v, "latitude") = Num(1)

\* C6: no retry: an invocation calls each upstream at most once, and once an
\* upstream call has failed (exception, non-success status, unreadable
\* body) the invocation has returned without a further call.
Failed(outcome, jsonPc, i) ==
    \/ Threw(outcome)
    \/ BadStatus(outcome)
    \/ Answered(outcome) /\ outcome.v.body.st = "rejected" /\ pc[i] # jsonPc

NoRetry ==
    \A i \in Procs :
        /\ Len(GeocodeCalls(i)) <= 1
        /\ Len(ForecastCalls(i)) <= 1
        /\ Len(calls[i]) <= 2
        /\ Failed(geocodeResponse[i], "awaitGeocodeJson", i) =>
              (Returned(i) /\ Len(calls[i]) = 1 /\ Head(promise[i].v).k = "lit")
        /\ Failed(weatherResponse[i], "awaitForecastJson", i) =>
              (Returned(i) /\ Len(calls[i]) = 2 /\ Head(promise[i].v).k = "lit")

NoRetry_Witness ==
    \E i \in Procs :
        /\ Threw(geocodeResponse[i])
        /\ Returned(i)
        /\ Len(calls[i]) = 1

\* C7: round trip on success: when both upstream calls succeed, the response
\* is the indented JSON serialization of the forecast payload and parsing it
\* yields exactly the payload the forecast upstream returned.
SuccessRoundTrip ==
    \A i \in Procs :
        (Returned(i) /\ Delivered(geocodeResponse[i]) /\ Delivered(weatherResponse[i])) =>
            /\ promise[i].st = "fulfilled"
            /\ promise[i].v = JSONStringify(weatherResponse[i].v.body.v)
            /\ JSONParse(promise[i].v) = weatherResponse[i].v.body.v

\* C8: when the geocode call succeeds with zero candidates, the response is
\* exactly the fixed not-found message and the geocode call is the only call.
NoCandidate(i) ==
    /\ Delivered(geocodeResponse[i])
    /\ Get(geocodeResponse[i].v.body.v, "results") = Arr(<<>>)

StatusLine(response) ==
    <<NumTok(response.status.v), Ch(" ")>>
        \o [n \in 1..Len(response.statusText.cs) |-> Ch(response.statusText.cs[n])]

GeocodeStatusError ==
    \A i \in Procs :
        BadStatus(geocodeResponse[i]) =>
            /\ Returned(i)
            /\ promise[i] = Fulfilled(<<Lit("Error fetching location data: ")>>
                                         \o StatusLine(geocodeResponse[i].v))
            /\ Len(calls[i]) = 1 /\ ForecastCalls(i) = <<>>

GeocodeStatusError_Witness ==
    \E i \in Procs :
        /\ BadStatus(geocodeResponse[i])
        /\ geocodeResponse[i].v.body = Fulfilled(ErrorBody)
        /\ geocodeResponse[i].v.statusText.cs # <<>>
        /\ Returned(i)

\* C10: when the geocode call succeeds with a candidate and the forecast
\* call returns a non-success status, the response is 'Error fetching
\* weather data: ', the status code, a space and the status phrase, the
\* forecast body is not in it, and exactly two upstream calls were made.
ForecastStatusError ==
    \A i \in Procs :
        BadStatus(weatherResponse[i]) =>
            /\ Returned(i)
            /\ Delivered(geocodeResponse[i])
            /\ CandidateCount(geocodeResponse[i].v.body.v) >= 1
            /\ promise[i] = Fulfilled(<<Lit("Error fetching weather data: ")>>
                                         \o StatusLine(weatherResponse[i].v))
            /\ Len(calls[i]) = 2
            /\ Len(GeocodeCalls(i)) = 1 /\ Len(ForecastCalls(i)) = 1

ForecastStatusError_Witness ==
    \E i \in Procs :
        /\ BadStatus(weatherResponse[i])
        /\ weatherResponse[i].v.body = Fulfilled(ErrorBody)
        /\ Returned(i)
        /\ Len(calls[i]) = 2

(***************************************************************************)
(* The characters of a text.  A phrase of the program or of the engine is  *)
(* spelled out, a number is written in decimal, a JSON string is written   *)
(* between its quotes, a line break of JSON.stringify is followed by its   *)
(* indentation.                                                            *)
(***************************************************************************)
Spell(s) ==
    CASE s = "Error: City name cannot be empty" ->
            <<"E", "r", "r", "o", "r", ":", " ", "C", "i", "t", "y", " ", "n",
              "a", "m", "e", " ", "c", "a", "n", "n", "o", "t", " ", "b", "e",
              " ", "e", "m", "p", "t", "y">>
      [] s = "Error: Invalid city name provided" ->
            <<"E", "r", "r", "o", "r", ":", " ", "I", "n", "v", "a", "l", "i",
              "d", " ", "c", "i", "t", "y", " ", "n", "a", "m", "e", " ", "p",
              "r", "o", "v", "i", "d", "e", "d">>
      [] s = "Error: City not found. Please check the spelling and try again." ->
            <<"E", "r", "r", "o", "r", ":", " ", "C", "i", "t", "y", " ", "n",
              "o", "t", " ", "f", "o", "u", "n", "d", ".", " ", "P", "l", "e",
              "a", "s", "e", " ", "c", "h", "e", "c", "k", " ", "t", "h", "e",
              " ", "s", "p", "e", "l", "l", "i", "n", "g", " ", "a", "n", "d",
              " ", "t", "r", "y", " ", "a", "g", "a", "i", "n", ".">>
      [] s = "Error fetching location data: " ->
            <<"E", "r", "r", "o", "r", " ", "f", "e", "t", "c", "h", "i", "n",
              "g", " ", "l", "o", "c", "a", "t", "i", "o", "n", " ", "d", "a",
              "t", "a", ":", " ">>
      [] s = "Error fetching weather data: " ->
            <<"E", "r", "r", "o", "r", " ", "f", "e", "t", "c", "h", "i", "n",
              "g", " ", "w", "e", "a", "t", "h", "e", "r", " ", "d", "a", "t",
              "a", ":", " ">>
      [] s = "Error retrieving weather: " ->
            <<"E", "r", "r", "o", "r", " ", "r", "e", "t", "r", "i", "e", "v",
              "i", "n", "g", " ", "w", "e", "a", "t", "h", "e", "r", ":",
              " ">>
      [] s = "Error: City " ->
            <<"E", "r", "r", "o", "r", ":", " ", "C", "i", "t", "y", " ">>
      [] s = " not found. Please check the spelling and try again." ->
            <<" ", "n", "o", "t", " ", "f", "o", "u", "n", "d", ".", " ", "P",
              "l", "e", "a", "s", "e", " ", "c", "h", "e", "c", "k", " ", "t",
              "h", "e", " ", "s", "p", "e", "l", "l", "i", "n", "g", " ", "a",
              "n", "d", " ", "t", "r", "y", " ", "a", "g", "a", "i", "n",
              ".">>
      [] s = "Unknown error" ->
            <<"U", "n", "k", "n", "o", "w", "n", " ", "e", "r", "r", "o",
              "r">>
      [] s = "fetch failed" ->
            <<"f", "e", "t", "c", "h", " ", "f", "a", "i", "l", "e", "d">>
      [] s = "getaddrinfo ENOTFOUND api.open-meteo.com" ->
            <<"g", "e", "t", "a", "d", "d", "r", "i", "n", "f", "o", " ", "E",
              "N", "O", "T", "F", "O", "U", "N", "D", " ", "a", "p", "i", ".",
              "o", "p", "e", "n", "-", "m", "e", "t", "e", "o", ".", "c", "o",
              "m">>
      [] s = "Unexpected token < in JSON at position 0" ->
            <<"U", "n", "e", "x", "p", "e", "c", "t", "e", "d", " ", "t", "o",
              "k", "e", "n", " ", "<", " ", "i", "n", " ", "J", "S", "O", "N",
              " ", "a", "t", " ", "p", "o", "s", "i", "t", "i", "o", "n", " ",
              "0">>
      [] s = "URI malformed" ->
            <<"U", "R", "I", " ", "m", "a", "l", "f", "o", "r", "m", "e",
              "d">>
      [] s = "input.city.trim is not a function" ->
            <<"i", "n", "p", "u", "t", ".", "c", "i", "t", "y", ".", "t", "r",
              "i", "m", " ", "i", "s", " ", "n", "o", "t", " ", "a", " ", "f",
              "u", "n", "c", "t", "i", "o", "n">>
      [] s = "Cannot read properties of null (reading 'results')" ->
            <<"C", "a", "n", "n", "o", "t", " ", "r", "e", "a", "d", " ", "p",
              "r", "o", "p", "e", "r", "t", "i", "e", "s", " ", "o", "f", " ",
              "n", "u", "l", "l", " ", "(", "r", "e", "a", "d", "i", "n", "g",
              " ", "'", "r", "e", "s", "u", "l", "t", "s", "'", ")">>
      [] s = "Cannot destructure property 'latitude' of 'geocodeData.results[0]' as it is undefined." ->
            <<"C", "a", "n", "n", "o", "t", " ", "d", "e", "s", "t", "r", "u",
              "c", "t", "u", "r", "e", " ", "p", "r", "o", "p", "e", "r", "t",
              "y", " ", "'", "l", "a", "t", "i", "t", "u", "d", "e", "'", " ",
              "o", "f", " ", "'", "g", "e", "o", "c", "o", "d", "e", "D", "a",
              "t", "a", ".", "r", "e", "s", "u", "l", "t", "s", "[", "0", "]",
              "'", " ", "a", "s", " ", "i", "t", " ", "i", "s", " ", "u", "n",
              "d", "e", "f", "i", "n", "e", "d", ".">>
      [] s = "undefined" ->
            <<"u", "n", "d", "e", "f", "i", "n", "e", "d">>
      [] s = "null" ->
            <<"n", "u", "l", "l">>
      [] s = "Infinity" ->
            <<"I", "n", "f", "i", "n", "i", "t", "y">>
      [] s = "[object Object]" ->
            <<"[", "o", "b", "j", "e", "c", "t", " ", "O", "b", "j", "e", "c",
              "t", "]">>

Digit(n) == <<"0", "1", "2", "3", "4", "5", "6", "7", "8", "9">>[n + 1]

RECURSIVE Decimal(_)
Decimal(n) ==
    IF n < 0 THEN <<"-">> \o Decimal(0 - n)
    ELSE IF n < 10 THEN <<Digit(n)>>
    ELSE Decimal(n \div 10) \o <<Digit(n % 10)>>

TokenChars(tok) ==
    CASE tok.k = "ch" -> <<tok.c>>
      [] tok.k = "lit" -> Spell(tok.s)
      [] tok.k = "num" -> Decimal(tok.n)
      [] tok.k = "pct" -> <<"%">>
      [] tok.k = "p" -> <<tok.s>>
      [] tok.k = "nl" -> <<"\n">> \o [n \in 1..tok.n |-> " "]
      [] tok.k = "sp" -> <<" ">>
      [] tok.k = "jstr" -> <<"\"">> \o tok.cs \o <<"\"">>
      [] tok.k = "jnull" -> <<"n", "u", "l", "l">>

RECURSIVE Expand(_)
Expand(text) ==
    IF text = <<>> THEN <<>> ELSE TokenChars(Head(text)) \o Expand(Tail(text))

\* String.prototype.includes
Contains(hay, needle) ==
    \E k \in 0..(Len(hay) - Len(needle)) : SubSeq(hay, k + 1, k + Len(needle)) = needle

\* Some character of the text is in the set.
HasChar(text, set) ==
    \E n \in 1..Len(text) :
        LET cs == TokenChars(text[n]) IN \E m \in 1..Len(cs) : cs[m] \in set

(***************************************************************************)
(* Exceptions                                                              *)
(***************************************************************************)
\* The exception raised in invocation i, if one was: a fetch that was
\* rejected, a body that could not be parsed, or a geocode body that is
\* null where an object is expected.
Raised(i) ==
    IF Threw(geocodeResponse[i]) THEN {geocodeResponse[i].e}
    ELSE IF Answered(geocodeResponse[i]) /\ geocodeResponse[i].v.body.st = "rejected"
         THEN {geocodeResponse[i].v.body.e}
    ELSE IF Delivered(geocodeResponse[i]) /\ geocodeResponse[i].v.body.v = Null
         THEN {Error("TypeError", <<Lit("Cannot read properties of null (reading 'results')")>>)}
    ELSE IF Threw(weatherResponse[i]) THEN {weatherResponse[i].e}
    ELSE IF Answered(weatherResponse[i]) /\ weatherResponse[i].v.body.st = "rejected"
         THEN {weatherResponse[i].v.body.e}
    ELSE {}

\* C11: an exception raised at any step of an invocation (a fetch that
\* fails, a body that cannot be parsed, a body of unexpected shape) never
\* leaves getWeather: the invocation resolves to 'Error retrieving
\* weather: ' followed by the message of the exception, or by 'Unknown
\* error' when the thrown value is not an Error.
ExceptionsCaught ==
    \A i \in Procs :
        Returned(i) =>
            \A e \in Raised(i) :
                promise[i] =
                    Fulfilled(<<Lit("Error retrieving weather: ")>>
                                \o (IF e.isError THEN e.message
                                    ELSE <<Lit("Unknown error")>>))

ExceptionsCaught_Witness ==
    \E i \in Procs :
        /\ Returned(i)
        /\ Delivered(geocodeResponse[i])
        /\ Threw(weatherResponse[i])
        /\ ~weatherResponse[i].e.isError
        /\ promise[i] = Fulfilled(<<Lit("Error retrieving weather: "), Lit("Unknown error")>>)

(***************************************************************************)
(* What a response shows of the input                                      *)
(***************************************************************************)
\* The rejection an invocation met: by the guard for a blank city, by the
\* guard for a city made of blocked characters and white space only, or by
\* the geocoder that knows no candidate.
Rejection(i) ==
    CASE BlankCity(input[i]) -> "empty"
      [] input[i].t = "string" /\ ~BlankCity(input[i])
            /\ (\A n \in 1..Len(input[i].cs) : input[i].cs[n] \in Blocked \cup WhiteSpace)
                -> "invalid"
      [] NoCandidate(i) -> "notfound"
      [] OTHER -> "none"

\* The text of each rejection.
RejectionText(kind) ==
    CASE kind = "empty" -> <<Lit("Error: City name cannot be empty")>>
      [] kind = "invalid" -> <<Lit("Error: Invalid city name provided")>>
      [] kind = "notfound" ->
            <<Lit("Error: City not found. Please check the spelling and try again.")>>

\* The raw input occurs in the response as a substring.
EchoesInput(i) ==
    /\ input[i].t = "string"
    /\ input[i].cs # <<>>
    /\ Contains(Expand(promise[i].v), input[i].cs)

\* C12 as stated: the response to a rejected or not-found city is the same
\* for all inputs of the same rejection, and the raw input is never a
\* substring of it.
NoEchoNoSubstring ==
    \A i \in Procs :
        (Returned(i) /\ Rejection(i) # "none") =>
            /\ promise[i] = Fulfilled(RejectionText(Rejection(i)))
            /\ ~EchoesInput(i)

\* C12, amended: the response to a rejected or not-found city is the fixed
\* text of the rejection, the same for all inputs and with no character
\* taken from the input; the raw input is a substring of the response only
\* where it is a substring of that fixed text.
NoEcho ==
    \A i \in Procs :
        (Returned(i) /\ Rejection(i) # "none") =>
            /\ promise[i] = Fulfilled(RejectionText(Rejection(i)))
            /\ \A n \in 1..Len(promise[i].v) : promise[i].v[n].k = "lit"
            /\ EchoesInput(i) =>
                    Contains(Expand(RejectionText(Rejection(i))), input[i].cs)

NoEcho_Witness ==
    \E i \in Procs :
        /\ Returned(i)
        /\ input[i] = Str(<<"<", ")">>)
        /\ Rejection(i) = "invalid"
        /\ ~EchoesInput(i)

\* The invocation resolved to one of the error responses.
IsErrorResponse(i) ==
    Returned(i) /\ promise[i].st = "fulfilled" /\ IsErrorText(promise[i].v)

\* The sanitized city occurs in the response as a substring.
EchoesSanitized(i) ==
    /\ sanitizedCity[i] # <<>>
    /\ Contains(Expand(promise[i].v), sanitizedCity[i])

\* C13 as stated: no error response, of whatever kind, includes the raw or
\* the sanitized city verbatim, whatever status phrase or exception
\* message the upstream or the HTTP client supplies.
NoCityInErrors ==
    \A i \in Procs :
        IsErrorResponse(i) => (~EchoesInput(i) /\ ~EchoesSanitized(i))

\* Words that name a low-level network detail.
LowLevelWords ==
    {<<"E", "N", "O", "T", "F", "O", "U", "N", "D">>,
     <<"d", "n", "s">>,
     <<"s", "o", "c", "k", "e", "t">>}

\* C14 as stated: when an upstream call throws a network exception, the
\* response contains 'Error retrieving weather' and no low-level network
\* detail such as 'ENOTFOUND', 'dns' or 'socket', whatever the text of the
\* exception is.
NoLowLevelDetail ==
    \A i \in Procs :
        (Returned(i) /\ (Threw(geocodeResponse[i]) \/ Threw(weatherResponse[i]))) =>
            /\ promise[i].st = "fulfilled"
            /\ Head(promise[i].v) = Lit("Error retrieving weather: ")
            /\ \A word \in LowLevelWords : ~Contains(Expand(promise[i].v), word)

CleanStatus(outcome) == BadStatus(outcome) /\ NoBlocked(outcome.v.statusText.cs)

RunAlone(city, geocode, weather) ==
    LET validated == TryCatch(ValidateAndGeocode(city))
    IN  IF validated.op = "return" THEN validated.text
        ELSE LET located == TryCatch(OnGeocodeResponse(geocode))
        IN  IF located.op = "return" THEN located.text
        ELSE LET chosen == TryCatch(OnGeocodeData(geocode.v.body))
        IN  IF chosen.op = "return" THEN chosen.text
        ELSE LET answered == TryCatch(OnWeatherResponse(weather))
        IN  IF answered.op = "return" THEN answered.text
        ELSE TryCatch(OnWeatherData(weather.v.body)).text

\* The first candidate of the geocode body of invocation i.
OwnCandidate(i) == First(Get(geocodeResponse[i].v.body.v, "results"))

\* C16: when several invocations are in flight at once and resume in any
\* order, each invocation's geocode call carries its own city, its
\* forecast call carries the coordinates of the first candidate of its own
\* geocode response, and its response is the one it would have resolved to
\* had it run alone with its own city and its own upstream responses.
NoCrossTalk ==
    \A i \in Procs :
        /\ GeocodeCalls(i) # <<>> =>
              GeocodeCalls(i) = <<GeocodeRequest(sanitizeInput(input[i].cs))>>
        /\ ForecastCalls(i) # <<>> =>
              ForecastCalls(i) = <<ForecastRequest(Get(OwnCandidate(i), "latitude"),
                                                   Get(OwnCandidate(i), "longitude"))>>
        /\ Returned(i) =>
              promise[i] = Fulfilled(RunAlone(input[i], geocodeResponse[i], weatherResponse[i]))

NoCrossTalk_Witness ==
    \E i, j \in Procs :
        /\ pc[i] = "awaitForecast"
        /\ pc[j] = "awaitForecast"
        /\ input[i] # input[j]
        /\ OwnCandidate(i) # OwnCandidate(j)
        /\ ForecastCalls(i) # ForecastCalls(j)

\* A city the guard lets through and the request can carry.
ValidCity(city) ==
    /\ city.t = "string"
    /\ sanitizeInput(city.cs) # <<>>
    /\ WellFormed(sanitizeInput(city.cs))

\* Both upstreams answered invocation i with a success status and a body,
\* the geocoder with a candidate and the forecast with a payload.
Healthy(i) ==
    /\ Delivered(geocodeResponse[i])
    /\ CandidateCount(geocodeResponse[i].v.body.v) >= 1
    /\ OwnCandidate(i).t = "object"
    /\ Delivered(weatherResponse[i])
    /\ weatherResponse[i].v.body.v.t = "object"

\* C17: an invocation that ended in an error (validation rejection,
\* upstream status error, upstream exception) does not leave the service
\* unable to serve: an invocation made after it with a valid city goes to
\* the upstream, and when the upstreams are healthy it returns the success
\* payload.
Recovery ==
    \A i \in Procs :
        (Started(i) /\ prior[i] = "error" /\ ValidCity(input[i])) =>
            /\ GeocodeCalls(i) # <<>>
            /\ (Returned(i) /\ Healthy(i)) =>
                  /\ IsSuccess(i)
                  /\ promise[i] = Fulfilled(JSONStringify(weatherResponse[i].v.body.v))

Recovery_Witness ==
    \E i, j \in Procs :
        /\ IsErrorResponse(j)
        /\ prior[i] = "error"
        /\ Healthy(i)
        /\ IsSuccess(i)

\* C18: two invocations with the same valid city whose upstreams return
\* the same responses resolve to identical responses, whether one follows
\* the other or both are in flight together, and whatever invocations came
\* before either of them.
Idempotence ==
    \A i, j \in Procs :
        (/\ Returned(i) /\ Returned(j)
         /\ ValidCity(input[i])
         /\ input[i] = input[j]
         /\ geocodeResponse[i] = geocodeResponse[j]
         /\ weatherResponse[i] = weatherResponse[j]) =>
            promise[i] = promise[j]

Idempotence_Witness ==
    \E i, j \in Procs :
        /\ i # j
        /\ IsSuccess(i) /\ IsSuccess(j)
        /\ input[i] = input[j]
        /\ geocodeResponse[i] = geocodeResponse[j]
        /\ weatherResponse[i] = weatherResponse[j]
        /\ prior[i] # prior[j]
        /\ promise[i] = promise[j]

(***************************************************************************)
(* Termination                                                             *)
(***************************************************************************)
\* C19 as stated: each wait of an invocation is bounded by the
\* invocation's own timeout, so every started invocation eventually
\* returns a response, also when an upstream call never answers.
EventuallyReturns ==
    \A i \in Procs : Started(i) ~> Returned(i)

(***************************************************************************)
(* The envelope of the tool                                                *)
(***************************************************************************)
\* C20: when the handler of the getWeather tool hands over its result, the
\* envelope has the one field content, with exactly one item, of type
\* 'text', whose text is the string getWeather resolved to, which is not
\* empty; this is so for a success and for every error alike, and the
\* envelope has no error flag.
EnvelopeIsOneText ==
    [][\A i \in Procs :
          (pc[i] = "done" /\ pc'[i] = "idle") =>
              /\ promise[i].st = "fulfilled"
              /\ promise[i].v # <<>>
              /\ DOMAIN envelope'[i] = {"content"}
              /\ Len(envelope'[i].content) = 1
              /\ envelope'[i].content[1] = [type |-> "text", text |-> promise[i].v]]_vars

EnvelopeIsOneText_Witness ==
    \E i \in Procs :
        /\ pc[i] = "idle"
        /\ Len(envelope[i].content) = 1
        /\ envelope[i].content[1].type = "text"
        /\ envelope[i].content[1].text = <<Lit("Error retrieving weather: "), Lit("fetch failed")>>

(***************************************************************************)
(* The schema of the tool                                                  *)
(***************************************************************************)
\* C21 as stated: a request passes the input schema of the getWeather tool
\* if and only if its city is present, is a string and has length at
\* least 1, so that every invocation the tool starts has such a city: a
\* missing, non-string or empty city never reaches getWeather.
SchemaGuardsPipeline ==
    \A i \in Procs :
        Started(i) => WeatherSchema(Obj(<<"city">>, <<input[i]>>))

(***************************************************************************)
(* The geocode request                                                     *)
(***************************************************************************)
\* The number of escaped surrogate pairs among the first n tokens.
PairsIn(name, n) == Cardinality({m \in 1..n : name[m] = Pct("HL")})

\* The tokens of name are the URL encoding of the string s: an unreserved
\* character stands for itself, any other code unit or pair is escaped.
IsEncodingOf(name, s) ==
    /\ Len(s) = Len(name) + PairsIn(name, Len(name))
    /\ \A n \in 1..Len(name) :
          LET k == n + PairsIn(name, n - 1)
          IN  CASE name[n].k = "ch" -> s[k] = name[n].c /\ s[k] \in Unreserved
                [] name[n] = Pct("HL") -> s[k] = "H" /\ s[k + 1] = "L"
                [] OTHER -> name[n].k = "pct" /\ s[k] = name[n].c /\ s[k] \notin Unreserved

\* C22: the geocode request an invocation has just issued goes to
\* https://geocoding-api.open-meteo.com/v1/search with the URL-encoded
\* sanitized city as its name (no blocked character of the raw city is in
\* it), count 1, language en and format json, and nothing else.
GeocodeRequestShape ==
    \A i \in Procs :
        pc[i] = "awaitGeocode" =>
            /\ Len(calls[i]) = 1
            /\ DOMAIN calls[i][1] = {"api", "name", "count", "language", "format"}
            /\ calls[i][1].api = "https://geocoding-api.open-meteo.com/v1/search"
            /\ IsEncodingOf(calls[i][1].name, sanitizeInput(input[i].cs))
            /\ \A n \in 1..Len(calls[i][1].name) :
                  calls[i][1].name[n].k = "ch" => calls[i][1].name[n].c \notin Blocked
            /\ calls[i][1].count = 1
            /\ calls[i][1].language = "en"
            /\ calls[i][1].format = "json"

GeocodeRequestShape_Witness ==
    \E i \in Procs :
        /\ pc[i] = "awaitGeocode"
        /\ input[i] = Str(<<")", "a">>)
        /\ calls[i][1].name = <<Ch("a")>>
        /\ calls[i][1].count = 1

(***************************************************************************)
(* The not-found response                                                  *)
(***************************************************************************)
\* 'Error: City "<city>" not found' for the city of invocation i
NamedNotFound(i) ==
    <<"E", "r", "r", "o", "r", ":", " ", "C", "i", "t", "y", " ", "\"">>
        \o input[i].cs
        \o <<"\"", " ", "n", "o", "t", " ", "f", "o", "u", "n", "d">>

OwnResults(i) == Get(geocodeResponse[i].v.body.v, "results")

\* A geocode answer that holds nothing but the coordinates of the first
\* candidate of invocation i.
FirstCoordinatesOnly(i) ==
    Fulfilled(Response(200, <<>>,
        Fulfilled(Obj(<<"results">>,
            <<Arr(<<Obj(<<"latitude", "longitude">>,
                        <<Get(OwnResults(i).items[1], "latitude"),
                          Get(OwnResults(i).items[1], "longitude")>>)>>)>>))))

\* C24: the forecast request of an invocation goes to
\* https://api.open-meteo.com/v1/forecast with the latitude and longitude
\* of the first candidate of its own geocode result and with the fixed
\* model and fields; further candidates, their order, and the name and
\* country of the first one change neither the request nor the response.
FirstCandidateOnly ==
    \A i \in Procs :
        (ForecastCalls(i) # <<>> /\ OwnResults(i).t = "array") =>
            /\ ForecastCalls(i) =
                  <<[api |-> "https://api.open-meteo.com/v1/forecast",
                     latitude |-> TemplateString(Get(OwnResults(i).items[1], "latitude")),
                     longitude |-> TemplateString(Get(OwnResults(i).items[1], "longitude")),
                     hourly |-> "temperature_2m",
                     models |-> "ukmo_seamless",
                     current |-> "temperature_2m,apparent_temperature,is_day,rain"]>>
            /\ Returned(i) =>
                  promise[i] = Fulfilled(RunAlone(input[i], FirstCoordinatesOnly(i),
                                                  weatherResponse[i]))

FirstCandidateOnly_Witness ==
    \E i \in Procs :
        /\ IsSuccess(i)
        /\ OwnResults(i) = Arr(<<Place(1, 2), Place(2, 1)>>)
        /\ ForecastCalls(i)[1].latitude = TemplateString(Num(1))
        /\ ForecastCalls(i)[1].longitude = TemplateString(Num(2))

(***************************************************************************)
(* The guard and the length limit                                          *)
(***************************************************************************)
\* C25 as stated, for a city that is absent or a well-formed string: the
\* guard rejects it if and only if its sanitized form is empty.  A city
\* whose sanitized form is not empty proceeds to the geocode call; a
\* rejected one makes no call and gets the empty-city message when it is
\* absent or blank (the check made first) and the invalid-city message
\* otherwise.
GuardIffSanitizedEmpty ==
    \A i \in Procs :
        (Started(i) /\ (input[i] = Undefined
                          \/ (input[i].t = "string" /\ WellFormed(input[i].cs)))) =>
            IF BlankCity(input[i])
            THEN /\ promise[i] = Fulfilled(<<Lit("Error: City name cannot be empty")>>)
                 /\ calls[i] = <<>>
            ELSE IF sanitizeInput(input[i].cs) = <<>>
            THEN /\ promise[i] = Fulfilled(<<Lit("Error: Invalid city name provided")>>)
                 /\ calls[i] = <<>>
            ELSE /\ GeocodeCalls(i) # <<>>
                 /\ promise[i] # Fulfilled(<<Lit("Error: City name cannot be empty")>>)
                 /\ promise[i] # Fulfilled(<<Lit("Error: Invalid city name provided")>>)

\* C26 as stated, for a well-formed city: when the city, after removal of
\* the blocked characters and trimming, is longer than 100 characters, the
\* invocation is not rejected: it proceeds to the geocode call, and the
\* request carries exactly the first 100 characters.
TruncatedNotRejected ==
    \A i \in Procs :
        (/\ Started(i)
         /\ input[i].t = "string"
         /\ WellFormed(input[i].cs)
         /\ Len(Trim(RemoveDangerous(input[i].cs))) > 100) =>
            /\ GeocodeCalls(i) # <<>>
            /\ pc[i] = "awaitGeocode" =>
                  IsEncodingOf(calls[i][1].name,
                               SubSeq(Trim(RemoveDangerous(input[i].cs)), 1, 100))

(***************************************************************************)
(* A geocode body without results                                          *)
(***************************************************************************)
\* The geocode body of invocation i was read and is an object that has no
\* results at all.
NoResultsKey(i) ==
    /\ Delivered(geocodeResponse[i])
    /\ pc[i] # "awaitGeocodeJson"
    /\ geocodeResponse[i].v.body.v.t = "object"
    /\ ~HasKey(geocodeResponse[i].v.body.v, "results")

\* A geocode answer whose results are the empty list.
EmptyResults == Fulfilled(Response(200, <<>>, Fulfilled(Obj(<<"results">>, <<Arr(<<>>)>>))))

\* C27: a geocode response with a success status whose body has no
\* results ends the invocation as an empty results list does: with the
\* fixed not-found message, and without a forecast call.
AbsentResultsNotFound ==
    \A i \in Procs :
        NoResultsKey(i) =>
            /\ Returned(i)
            /\ promise[i] = Fulfilled(RunAlone(input[i], EmptyResults, weatherResponse[i]))
            /\ promise[i].v = NotFoundMsg
            /\ ForecastCalls(i) = <<>>
            /\ weatherResponse[i] = NoCall

AbsentResultsNotFound_Witness ==
    \E i \in Procs :
        /\ NoResultsKey(i)
        /\ geocodeResponse[i].v.body.v = Obj(<<"generationtime_ms">>, <<Num(1)>>)
        /\ Returned(i)
        /\ Len(calls[i]) = 1

(***************************************************************************)
(* Progress with upstreams that answer                                     *)
(***************************************************************************)
\* C28: when every upstream call that is issued is settled in the end,
\* every started invocation returns: it reaches its return with a
\* response and at most two upstream calls made, and the response, once
\* given, is not replaced by another.
ReturnsWhenUpstreamsSettle ==
    /\ \A i \in Procs :
          Started(i) ~> (Returned(i) /\ promise[i].st = "fulfilled" /\ Len(calls[i]) <= 2)
    /\ [][\A i \in Procs :
             promise[i].st = "fulfilled" => promise'[i] \in {promise[i], NoCall}]_vars

ReturnsWhenUpstreamsSettle_Witness ==
    \E i \in Procs :
        /\ Returned(i)
        /\ Len(calls[i]) = 2
        /\ Delivered(weatherResponse[i])
        /\ IsSuccess(i)

(***************************************************************************)
(* The sanitizer applied twice                                             *)
(***************************************************************************)
\* C29 as stated: the sanitized city is a fixed point of the sanitizer:
\* for every input string, sanitizing the sanitized city returns it
\* unchanged (it is already stripped, trimmed and at most 100 long).
SanitizeIdempotent ==
    \A i \in Procs :
        (Started(i) /\ input[i].t = "string" /\ ~BlankCity(input[i])) =>
            /\ sanitizedCity[i] = sanitizeInput(input[i].cs)
            /\ sanitizeInput(sanitizedCity[i]) = sanitizedCity[i]

(***************************************************************************)
(* Telling an error from a success                                         *)
(***************************************************************************)
\* The text begins with the five characters of 'Error'.
StartsWithError(text) ==
    /\ text # <<>>
    /\ LET cs == TokenChars(Head(text))
       IN  Len(cs) >= 5 /\ SubSeq(cs, 1, 5) = <<"E", "r", "r", "o", "r">>

\* C30: an invocation that returns the serialized forecast payload (the
\* forecast answered with a success status and its body was read) returns
\* a text that does not begin with 'Error'; an invocation that leaves by
\* any other exit returns a text that begins with 'Error'.
ErrorPrefixTellsApart ==
    \A i \in Procs :
        Returned(i) =>
            /\ promise[i].st = "fulfilled"
            /\ Delivered(weatherResponse[i]) <=> ~StartsWithError(promise[i].v)

ErrorPrefixTellsApart_Witness ==
    \E i \in Procs :
        /\ Returned(i)
        /\ Delivered(weatherResponse[i])
        /\ weatherResponse[i].v.body.v = ErrorBody
        /\ ~StartsWithError(promise[i].v)

====
